---- MODULE Spec2Model ----
(***************************************************************************)
(* Monte Carlo European option pricer: the closed-form Black-Scholes       *)
(* reference pricers (C++ bs_call/bs_put, JS bsCall/bsPut), the C++        *)
(* estimator monte_carlo_price (sequential and OpenMP builds) and the JS   *)
(* estimators runMonteCarloSequential / runMonteCarloWithWorker.           *)
(*                                                                         *)
(* Numbers: a double is modelled as a fixed-point integer, ONE standing    *)
(* for 1.0.  exp, log, sqrt and erf are computed by their series in that   *)
(* arithmetic (rounding towards minus infinity at every division).         *)
(***************************************************************************)
EXTENDS Integers, Sequences, FiniteSets, TLC

----------------------------------------------------------------------------
(* Fixed-point arithmetic                                                  *)

ONE == 100 * 100

Max(a, b) == IF a >= b THEN a ELSE b

Abs(a) == IF a >= 0 THEN a ELSE -a

Mul(a, b) == (a * b) \div ONE

Div(a, b) == (a * ONE) \div b

RECURSIVE ExpSeries(_, _, _, _)
ExpSeries(x, k, term, acc) ==
    IF k > 14 \/ term = 0 THEN acc
    ELSE LET next == (term * x) \div (ONE * k)
         IN  ExpSeries(x, k + 1, next, acc + next)

(* std::exp / Math.exp *)
Exp(x) ==
    IF x >= 0 THEN ExpSeries(x, 1, ONE, ONE)
    ELSE (ONE * ONE) \div ExpSeries(-x, 1, ONE, ONE)

RECURSIVE Newton(_, _)
Newton(n, g) ==
    LET h == (g + n \div g) \div 2
    IN  IF h >= g THEN g ELSE Newton(n, h)

(* the value standing for a NaN *)
NaN == -(ONE * ONE)

(* std::sqrt / Math.sqrt: NaN on a negative argument *)
Sqrt(x) == IF x < 0 THEN NaN ELSE IF x = 0 THEN 0 ELSE Newton(x * ONE, x * ONE)

RECURSIVE AtanhSeries(_, _, _, _)
AtanhSeries(y2, k, pow, acc) ==
    IF k > 9 \/ pow = 0 THEN acc
    ELSE LET next == Mul(pow, y2)
         IN  AtanhSeries(y2, k + 2, next, acc + next \div k)

(* std::log / Math.log, for x > 0: ln x = 2 atanh((x-1)/(x+1)) *)
Ln(x) ==
    LET y == Div(Abs(x - ONE), x + ONE)
        a == 2 * AtanhSeries(Mul(y, y), 3, y, y)
    IN  IF x >= ONE THEN a ELSE -a

RECURSIVE ErfSeries(_, _, _, _, _)
ErfSeries(x2, n, term, sign, acc) ==
    IF n > 30 \/ term = 0 THEN acc
    ELSE LET next == Mul(term, x2) \div n
         IN  ErfSeries(x2, n + 1, next, -sign, acc + sign * (next \div (2 * n + 1)))

(* std::erf: (2/sqrt(pi)) * sum (-1)^n x^(2n+1) / (n! (2n+1)) *)
Erf(x) ==
    IF x < 0 THEN -Mul(11284, ErfSeries(Mul(-x, -x), 1, -x, -1, -x))
    ELSE Mul(11284, ErfSeries(Mul(x, x), 1, x, -1, x))

----------------------------------------------------------------------------
(* Outcome of a call: a returned value or a thrown exception               *)

Return(v) == [status |-> "return", value |-> v, what |-> ""]

Throw(msg) == [status |-> "throw", value |-> 0, what |-> msg]

NotCalled == [status |-> "none", value |-> 0, what |-> ""]

----------------------------------------------------------------------------
(* Closed-form reference pricer, C++                                       *)

cumulative_normal(x) == (ONE + Erf(Div(x, Sqrt(2 * ONE)))) \div 2

(* the validation of bs_call: the message thrown, "" when the input passes *)
bs_call_check(S0, K, sigma, T) ==
    IF S0 <= 0 THEN "Stock price S0 must be positive"
    ELSE IF K <= 0 THEN "Strike price K must be positive"
    ELSE IF sigma < 0 THEN "Volatility sigma must be non-negative"
    ELSE IF T <= 0 THEN "Time to maturity T must be positive"
    ELSE ""

(* bs_put_check with the maturity test written T < 0 *)
bs_put_check_strictT(S0, K, sigma, T) ==
    IF S0 <= 0 THEN "Stock price S0 must be positive"
    ELSE IF K <= 0 THEN "Strike price K must be positive"
    ELSE IF sigma < 0 THEN "Volatility sigma must be non-negative"
    ELSE IF T < 0 THEN "Time to maturity T must be positive"
    ELSE ""

(* the validation of bs_put *)
bs_put_check(S0, K, sigma, T) ==
    IF S0 <= 0 THEN "Stock price S0 must be positive"
    ELSE IF K <= 0 THEN "Strike price K must be positive"
    ELSE IF sigma < 0 THEN "Volatility sigma must be non-negative"
    ELSE IF T <= 0 THEN "Time to maturity T must be positive"
    ELSE ""

bs_d1(S0, K, r, sigma, T) ==
    Div(Ln(Div(S0, K)) + Mul(r + Mul(ONE \div 2, Mul(sigma, sigma)), T),
        Mul(sigma, Sqrt(T)))

bs_d2(S0, K, r, sigma, T) == bs_d1(S0, K, r, sigma, T) - Mul(sigma, Sqrt(T))

bs_call(S0, K, r, sigma, T) ==
    IF bs_call_check(S0, K, sigma, T) # ""
    THEN Throw(bs_call_check(S0, K, sigma, T))
    ELSE IF sigma = 0
    THEN (IF S0 > K THEN Return(S0 - Mul(K, Exp(Mul(-r, T)))) ELSE Return(0))
    ELSE LET N_d1 == cumulative_normal(bs_d1(S0, K, r, sigma, T))
             N_d2 == cumulative_normal(bs_d2(S0, K, r, sigma, T))
         IN  Return(Mul(S0, N_d1) - Mul(Mul(K, Exp(Mul(-r, T))), N_d2))

bs_put(S0, K, r, sigma, T) ==
    IF bs_put_check(S0, K, sigma, T) # ""
    THEN Throw(bs_put_check(S0, K, sigma, T))
    ELSE IF sigma = 0
    THEN (IF K > S0 THEN Return(Mul(K, Exp(Mul(-r, T))) - S0) ELSE Return(0))
    ELSE LET N_neg_d1 == cumulative_normal(-bs_d1(S0, K, r, sigma, T))
             N_neg_d2 == cumulative_normal(-bs_d2(S0, K, r, sigma, T))
         IN  Return(Mul(Mul(K, Exp(Mul(-r, T))), N_neg_d2) - Mul(S0, N_neg_d1))

----------------------------------------------------------------------------
(* Closed-form reference pricer, JS                                        *)

(* Abramowitz-Stegun approximation of the normal CDF *)
cumulativeNormal(x0) ==
    LET sign == IF x0 >= 0 THEN 1 ELSE -1
        x    == Div(Abs(x0), Sqrt(2 * ONE))
        t    == Div(ONE, ONE + Mul(3276, x))
        poly == Mul(Mul(Mul(Mul(Mul(10614, t) - 14532, t) + 14214, t) - 2845, t) + 2548, t)
        y    == ONE - Mul(poly, Exp(-Mul(x, x)))
    IN  (ONE + sign * y) \div 2

bsInvalid(S0, K, sigma, T) == S0 <= 0 \/ K <= 0 \/ sigma < 0 \/ T <= 0

bsCall(S0, K, r, sigma, T) ==
    IF bsInvalid(S0, K, sigma, T)
    THEN Throw("Invalid parameters for Black-Scholes calculation")
    ELSE IF sigma = 0
    THEN Return(Max(S0 - Mul(K, Exp(Mul(-r, T))), 0))
    ELSE LET N_d1 == cumulativeNormal(bs_d1(S0, K, r, sigma, T))
             N_d2 == cumulativeNormal(bs_d2(S0, K, r, sigma, T))
         IN  Return(Mul(S0, N_d1) - Mul(Mul(K, Exp(Mul(-r, T))), N_d2))

bsPut(S0, K, r, sigma, T) ==
    IF bsInvalid(S0, K, sigma, T)
    THEN Throw("Invalid parameters for Black-Scholes calculation")
    ELSE IF sigma = 0
    THEN Return(Max(Mul(K, Exp(Mul(-r, T))) - S0, 0))
    ELSE LET N_neg_d1 == cumulativeNormal(-bs_d1(S0, K, r, sigma, T))
             N_neg_d2 == cumulativeNormal(-bs_d2(S0, K, r, sigma, T))
         IN  Return(Mul(Mul(K, Exp(Mul(-r, T))), N_neg_d2) - Mul(S0, N_neg_d1))

----------------------------------------------------------------------------
(* Payoffs                                                                 *)

european_call(S, K) == Max(S - K, 0)

(* european_put without the floor at zero *)
european_put_unfloored(S, K) == K - S

european_put(S, K) == Max(K - S, 0)

callPayoff(S, K) == Max(S - K, 0)

putPayoff(S, K) == Max(K - S, 0)

----------------------------------------------------------------------------
(* Path generation                                                         *)

(* the validation of simulate_path: the message thrown, "" when it passes *)
simulate_path_check(p, r) ==
    IF p.S0 <= 0 THEN "Initial stock price S0 must be positive"
    ELSE IF p.sigma < 0 THEN "Volatility sigma must be non-negative"
    ELSE IF p.T <= 0 THEN "Time to maturity T must be positive"
    ELSE IF p.steps <= 0 THEN "Number of steps must be positive"
    ELSE IF r < 0 THEN "Risk-free rate r must be non-negative"
    ELSE ""

(* one step of the loop of simulate_path, Z the normal drawn for it *)
gbm_step(current_price, p, r, Z) ==
    LET dt             == p.T \div p.steps
        drift_term     == Mul(r - Mul(ONE \div 2, Mul(p.sigma, p.sigma)), dt)
        diffusion_term == Mul(Mul(p.sigma, Sqrt(dt)), Z)
    IN  Mul(current_price, Exp(drift_term + diffusion_term))

(* simulate_path_loop drawing once and using that variate at every step *)
RECURSIVE simulate_path_loop_stale_draw(_, _, _, _)
simulate_path_loop_stale_draw(path, p, r, zs) ==
    IF Len(path) = p.steps + 1 THEN path
    ELSE simulate_path_loop_stale_draw(
             Append(path, gbm_step(path[Len(path)], p, r, zs[1])), p, r, zs)

RECURSIVE simulate_path_loop(_, _, _, _)
simulate_path_loop(path, p, r, zs) ==
    IF Len(path) = p.steps + 1 THEN path
    ELSE simulate_path_loop(
             Append(path, gbm_step(path[Len(path)], p, r, zs[Len(path)])), p, r, zs)

(* simulate_path for valid parameters; zs[i] is the i-th value randn() returns *)
simulate_path(p, r, zs) == simulate_path_loop(<<p.S0>>, p, r, zs)

(* JS simulateGBMPath, Z the value generateNormalRandom() returned *)
simulateGBMPath(S0, r, sigma, T, steps, Z) ==
    LET driftTerm     == Mul(r - Mul(ONE \div 2, Mul(sigma, sigma)), T)
        diffusionTerm == Mul(Mul(sigma, Sqrt(T)), Z)
    IN  Mul(S0, Exp(driftTerm + diffusionTerm))

----------------------------------------------------------------------------
(* Bounds and input grids                                                  *)

MaxPaths == 3

MaxSteps == 2

MaxThreads == 2

MaxWorkers == 2

S0Vals == {0, 9800, ONE, 11000}

KVals == {0, ONE}

RVals == {-500, 0, 500}

SigmaVals == {-1000, 0, 2000}

TVals == {0, ONE}

(* the values a draw from the normal source takes *)
Zs == {-ONE, ONE}

Requests ==
    [S0 : S0Vals, sigma : SigmaVals, T : TVals, steps : 0..MaxSteps, K : KVals,
     call : BOOLEAN, n_paths : 0..MaxPaths, r : RVals]

(* the invariants of the data model: K>0, S0>0, sigma>=0, T>0, steps>=1, *)
(* n_paths>=1, r>=0                                                       *)
ValidRequest(q) ==
    /\ q.K > 0 /\ q.n_paths >= 1 /\ q.r >= 0
    /\ q.S0 > 0 /\ q.sigma >= 0 /\ q.T > 0 /\ q.steps >= 1

----------------------------------------------------------------------------
(* State                                                                   *)

VARIABLES
    engine,                   \* which entry point this run exercises
    req,                      \* the request: GBMParams p, K, call, n_paths, r
    out_bs_call, out_bs_put,  \* outcome of C++ bs_call / bs_put on req
    out_bsCall, out_bsPut,    \* outcome of JS bsCall / bsPut on req
    pc,                       \* position of the estimator run
    i,                        \* loop index of the sequential loops
    total_discounted_payoff,  \* C++ total_discounted_payoff / JS totalPayoff
    total_squared_payoff,     \* C++ total_squared_payoff / JS totalSquaredPayoff
    mcOut,                    \* what the estimator delivered to its caller
    draws,                    \* number of normal variates returned so far
    terminal,                 \* history: path index -> terminal price S_T
    num_threads,              \* OpenMP team size
    todo,                     \* OpenMP: iterations not yet executed
    omp_private,              \* OpenMP: per-thread private reduction copies
    omp_reduced,              \* OpenMP: threads whose copies were combined
    numWorkers,               \* JS numWorkers
    inbox,                    \* JS: messages posted to the worker, in order
    outbox,                   \* JS: messages posted by the worker, in order
    results,                  \* JS results[]
    completedWorkers,         \* JS completedWorkers
    spare,                    \* generateNormalRandom.spare: <<>> or <<z>>
    terminated,               \* JS: worker.terminate() was called
    shares,                   \* history: workerId -> the index range it simulated
    settled,                  \* history: times the promise was settled
    hist,                     \* history: path index -> who simulated it and how
    cached_by,                \* history: the stream that cached the present spare
    variates,                 \* history: what generateNormalRandom returned, in order
    payoff_S, payoff_K,       \* arguments the payoff functions are applied to
    out_european_call, out_european_put,  \* outcome of the C++ payoffs
    out_callPayoff, out_putPayoff,        \* outcome of the JS payoffs
    randn_seq,                \* the values randn() returns, in order
    randn_pos,                \* how many of them were consumed
    out_path,                 \* outcome of simulate_path on req
    out_test_call, out_test_put,          \* TestResult of the accuracy tests
    field_value,              \* app.js: the text in each of the six inputs
    calculateBtn_disabled,    \* app.js: calculateBtn.disabled
    calculations,             \* app.js: calculatePrices calls awaiting their runs
    out_main                  \* how main() of the command-line tool ended

bsVars == <<out_bs_call, out_bs_put, out_bsCall, out_bsPut>>

loopVars == <<i, total_discounted_payoff, total_squared_payoff, draws, terminal>>

ompVars == <<num_threads, todo, omp_private, omp_reduced>>

workerVars ==
    <<numWorkers, inbox, outbox, results, completedWorkers, terminated, shares, settled>>

ghostVars == <<hist, cached_by, variates>>

payoffVars ==
    <<payoff_S, payoff_K, out_european_call, out_european_put, out_callPayoff,
      out_putPayoff>>

pathVars == <<randn_seq, randn_pos, out_path>>

testVars == <<out_test_call, out_test_put>>

formVars == <<field_value, calculateBtn_disabled, calculations>>

fnVars == <<payoffVars, pathVars, testVars, formVars, out_main>>

vars ==
    <<engine, req, bsVars, pc, loopVars, mcOut, ompVars, workerVars, spare, ghostVars,
      fnVars>>

McNone == [status |-> "none", what |-> "", price |-> 0, stderr |-> 0]

McReturn(price, se) == [status |-> "return", what |-> "", price |-> price, stderr |-> se]

McThrow(msg) == [status |-> "throw", what |-> msg, price |-> 0, stderr |-> 0]

McTerminate(msg) == [status |-> "terminate", what |-> msg, price |-> 0, stderr |-> 0]

McReject == [status |-> "reject", what |-> "error", price |-> 0, stderr |-> 0]

NoResult == [set |-> FALSE, workerId |-> 0, totalPayoff |-> 0, totalSquaredPayoff |-> 0,
             pathCount |-> 0]

(* a stream of normal variates: the draws of one worker (thread or share) *)
(* of this run, or those of an earlier run                                *)
Stream(worker) == [run |-> "this", worker |-> worker]

EarlierRun == [run |-> "earlier", worker |-> 0]

(* the generator instance the draws of a worker come from.  randn() keeps  *)
(* its engine and distribution thread_local, one instance per thread; in   *)
(* JS every share runs in the one Worker that runMonteCarloWithWorker      *)
(* creates, on that realm's Math.random and generateNormalRandom.spare     *)
generator_of(eng, worker) == IF eng \in {"cpp_seq", "cpp_omp"} THEN worker ELSE 0

(* the history entry of one path: the worker that simulated it, the        *)
(* generator its variates came from, the stream whose call produced them   *)
HistEntry(eng, worker, stream) ==
    [worker |-> worker, generator |-> generator_of(eng, worker), variate_from |-> stream]

EstimatorIdle ==
    /\ pc = "idle" /\ i = 0
    /\ total_discounted_payoff = 0 /\ total_squared_payoff = 0
    /\ mcOut = McNone /\ draws = 0 /\ terminal = <<>>
    /\ num_threads = 1 /\ todo = {} /\ omp_private = <<>> /\ omp_reduced = {}
    /\ numWorkers = 1 /\ inbox = <<>> /\ outbox = <<>> /\ results = <<>>
    /\ completedWorkers = 0 /\ spare = <<>> /\ terminated = FALSE /\ settled = 0
    /\ shares = <<>> /\ hist = <<>> /\ cached_by = <<>> /\ variates = <<>>

ClosedFormIdle ==
    /\ out_bs_call = NotCalled /\ out_bs_put = NotCalled
    /\ out_bsCall = NotCalled /\ out_bsPut = NotCalled

PayoffsIdle ==
    /\ payoff_S = 0 /\ payoff_K = 0
    /\ out_european_call = NotCalled /\ out_european_put = NotCalled
    /\ out_callPayoff = NotCalled /\ out_putPayoff = NotCalled

PathIdle == randn_seq = <<>> /\ randn_pos = 0 /\ out_path = NotCalled

TestsIdle == out_test_call = NotCalled /\ out_test_put = NotCalled

(* the six inputs of the form *)
Fields == {"s0", "k", "r", "sigma", "t", "steps"}

(* the page as the constructor of OptionPricingApp leaves it: resetForm *)
(* cleared the inputs and the button is disabled                        *)
FormIdle ==
    /\ field_value = [f \in Fields |-> ""]
    /\ calculateBtn_disabled = TRUE
    /\ calculations = 0

MainNotCalled == [status |-> "none", code |-> 0, what |-> "", pricing_calls |-> 0]

MainIdle == out_main = MainNotCalled

----------------------------------------------------------------------------
(* Closed-form pricers applied to the request                              *)

InitBS ==
    /\ engine = "closed_form"
    /\ req \in {q \in Requests : q.steps = 1 /\ q.n_paths = 1 /\ q.call}
    /\ ClosedFormIdle
    /\ EstimatorIdle
    /\ PayoffsIdle /\ PathIdle /\ TestsIdle /\ FormIdle /\ MainIdle

Call_bs_call ==
    /\ engine = "closed_form" /\ out_bs_call = NotCalled
    /\ out_bs_call' = bs_call(req.S0, req.K, req.r, req.sigma, req.T)
    /\ UNCHANGED <<engine, req, out_bs_put, out_bsCall, out_bsPut, pc, loopVars, mcOut,
                   ompVars, workerVars, spare, ghostVars, fnVars>>

Call_bs_put ==
    /\ engine = "closed_form" /\ out_bs_put = NotCalled
    /\ out_bs_put' = bs_put(req.S0, req.K, req.r, req.sigma, req.T)
    /\ UNCHANGED <<engine, req, out_bs_call, out_bsCall, out_bsPut, pc, loopVars, mcOut,
                   ompVars, workerVars, spare, ghostVars, fnVars>>

Call_bsCall ==
    /\ engine = "closed_form" /\ out_bsCall = NotCalled
    /\ out_bsCall' = bsCall(req.S0, req.K, req.r, req.sigma, req.T)
    /\ UNCHANGED <<engine, req, out_bs_call, out_bs_put, out_bsPut, pc, loopVars, mcOut,
                   ompVars, workerVars, spare, ghostVars, fnVars>>

Call_bsPut ==
    /\ engine = "closed_form" /\ out_bsPut = NotCalled
    /\ out_bsPut' = bsPut(req.S0, req.K, req.r, req.sigma, req.T)
    /\ UNCHANGED <<engine, req, out_bs_call, out_bs_put, out_bsCall, pc, loopVars, mcOut,
                   ompVars, workerVars, spare, ghostVars, fnVars>>

NextBS == Call_bs_call \/ Call_bs_put \/ Call_bsCall \/ Call_bsPut

SpecBS == InitBS /\ [][NextBS]_vars

----------------------------------------------------------------------------
(* C++ estimator: monte_carlo_price                                        *)

(* the validation at the top of monte_carlo_price *)
monte_carlo_price_check(K, n_paths, r) ==
    IF K <= 0 THEN "Strike price K must be positive"
    ELSE IF n_paths <= 0 THEN "Number of paths must be positive"
    ELSE IF r < 0 THEN "Risk-free rate r must be non-negative"
    ELSE ""

discount_factor(q) == Exp(Mul(-q.r, q.T))

(* discounted_payoff with the discounting left out *)
discounted_payoff_undiscounted(q, S_T) ==
    IF q.call THEN european_call(S_T, q.K) ELSE european_put(S_T, q.K)

(* the payoff of one path, discounted to present value *)
discounted_payoff(q, S_T) ==
    Mul(discount_factor(q),
        IF q.call THEN european_call(S_T, q.K) ELSE european_put(S_T, q.K))

(* mean, variance and standard error from the totals; a division by a zero *)
(* count yields NaN, as it does on doubles                                 *)
mc_result(total, total_sq, n_paths) ==
    IF n_paths = 0 THEN McReturn(NaN, NaN)
    ELSE LET mean_payoff         == total \div n_paths
             mean_squared_payoff == total_sq \div n_paths
             variance            == mean_squared_payoff - Mul(mean_payoff, mean_payoff)
         IN  McReturn(mean_payoff, Sqrt(variance \div n_paths))

(* what becomes of an exception that leaves the body of the parallel loop: *)
(* the OpenMP rules are broken, so the behaviour is undefined; the runtime *)
(* ends the process, or the exception happens to reach the caller          *)
OmpEscapeOutcomes(msg) == {McTerminate(msg), McThrow(msg)}

(* the request is any of the grid below S0 = ONE; the JS entry points are *)
(* reached with validated requests only, and the parallel C++ loop is run *)
(* on paths of at most one step                                           *)
InitMC ==
    /\ engine \in {"cpp_seq", "cpp_omp", "js_seq", "js_worker"}
    /\ req \in {q \in Requests : q.S0 < ONE}
    /\ engine \in {"js_seq", "js_worker"} => ValidRequest(req)
    /\ engine = "cpp_omp" => req.steps <= 1
    /\ ClosedFormIdle
    /\ PayoffsIdle /\ PathIdle /\ TestsIdle /\ FormIdle /\ MainIdle
    /\ pc = "call" /\ i = 0
    /\ total_discounted_payoff = 0 /\ total_squared_payoff = 0
    /\ mcOut = McNone /\ draws = 0 /\ terminal = <<>>
    /\ num_threads \in (IF engine = "cpp_omp" THEN 1..MaxThreads ELSE {1})
    /\ todo = {} /\ omp_private = <<>> /\ omp_reduced = {}
    /\ numWorkers \in (IF engine = "js_worker" THEN 1..MaxWorkers ELSE {1})
    /\ inbox = <<>> /\ outbox = <<>> /\ results = <<>>
    /\ completedWorkers = 0 /\ terminated = FALSE /\ settled = 0 /\ shares = <<>>
    /\ spare \in (IF engine = "js_seq" THEN {<<>>} \cup {<<z>> : z \in Zs} ELSE {<<>>})
    /\ hist = <<>> /\ variates = <<>>
    /\ cached_by = IF spare = <<>> THEN <<>> ELSE <<EarlierRun>>

(* monte_carlo_price, lines 10-24: validation and initialisation *)
McEnter ==
    /\ engine \in {"cpp_seq", "cpp_omp"} /\ pc = "call"
    /\ LET msg == monte_carlo_price_check(req.K, req.n_paths, req.r)
       IN  IF msg # ""
           THEN /\ mcOut' = McThrow(msg)
                /\ pc' = "done"
                /\ UNCHANGED <<todo, omp_private>>
           ELSE /\ mcOut' = mcOut
                /\ pc' = "loop"
                /\ todo' = IF engine = "cpp_omp" THEN 0..(req.n_paths - 1) ELSE {}
                /\ omp_private' = IF engine = "cpp_omp"
                                  THEN [t \in 0..(num_threads - 1) |-> [sum |-> 0, sq |-> 0]]
                                  ELSE <<>>
    /\ total_discounted_payoff' = 0
    /\ total_squared_payoff' = 0
    /\ UNCHANGED <<engine, req, bsVars, i, draws, terminal, num_threads, omp_reduced,
                   workerVars, spare, ghostVars, fnVars>>

(* one iteration of the sequential loop, simulate_path included *)
McSeqIter ==
    /\ engine = "cpp_seq" /\ pc = "loop" /\ i < req.n_paths
    /\ LET msg == simulate_path_check(req, req.r)
       IN  IF msg # ""
           THEN /\ mcOut' = McThrow(msg)
                /\ pc' = "done"
                /\ UNCHANGED <<loopVars, hist>>
           ELSE \E zs \in [1..req.steps -> Zs] :
                  LET path == simulate_path(req, req.r, zs)
                      S_T  == path[Len(path)]
                      d    == discounted_payoff(req, S_T)
                  IN  /\ total_discounted_payoff' = total_discounted_payoff + d
                      /\ total_squared_payoff' = total_squared_payoff + Mul(d, d)
                      /\ draws' = draws + req.steps
                      /\ terminal' = (i :> S_T) @@ terminal
                      /\ hist' = (i :> HistEntry(engine, 0, Stream(0))) @@ hist
                      /\ i' = i + 1
                      /\ UNCHANGED <<mcOut, pc>>
    /\ UNCHANGED <<engine, req, bsVars, ompVars, workerVars, spare, cached_by, variates,
                   fnVars>>

(* monte_carlo_price, lines 79-92: the result from the totals *)
McSeqFinish ==
    /\ engine = "cpp_seq" /\ pc = "loop" /\ i = req.n_paths
    /\ mcOut' = mc_result(total_discounted_payoff, total_squared_payoff, req.n_paths)
    /\ pc' = "done"
    /\ UNCHANGED <<engine, req, bsVars, loopVars, ompVars, workerVars, spare, ghostVars, fnVars>>

(* omp_accumulate with one copy of the accumulators for the whole team *)
omp_accumulate_one_copy(private, t, d) ==
    [private EXCEPT ![0].sum = @ + d, ![0].sq = @ + Mul(d, d)]

(* the two += of the loop body inside the parallel region: under the       *)
(* reduction clause they act on the private copies of the executing thread *)
omp_accumulate(private, t, d) ==
    [private EXCEPT ![t].sum = @ + d, ![t].sq = @ + Mul(d, d)]

(* one iteration of the parallel loop, run by thread t on its private copies. *)
(* No schedule clause is given, so which thread runs which iteration is left  *)
(* to the implementation: any thread may take the next iteration.  Iterations *)
(* are independent of one another and are handed out in index order.          *)
McOmpIter(t) ==
    /\ engine = "cpp_omp" /\ pc = "loop" /\ todo # {}
    /\ LET msg == simulate_path_check(req, req.r)
       IN  IF msg # ""
           THEN /\ mcOut' \in OmpEscapeOutcomes(msg)
                /\ pc' = "done"
                /\ UNCHANGED <<draws, terminal, todo, omp_private, hist>>
           ELSE \E zs \in [1..req.steps -> Zs] :
                  LET k    == CHOOSE k \in todo : \A j \in todo : k <= j
                      path == simulate_path(req, req.r, zs)
                      S_T  == path[Len(path)]
                      d    == discounted_payoff(req, S_T)
                  IN  /\ omp_private' = omp_accumulate(omp_private, t, d)
                      /\ draws' = draws + req.steps
                      /\ terminal' = (k :> S_T) @@ terminal
                      /\ hist' = (k :> HistEntry(engine, t, Stream(t))) @@ hist
                      /\ todo' = todo \ {k}
                      /\ UNCHANGED <<mcOut, pc>>
    /\ UNCHANGED <<engine, req, bsVars, i, total_discounted_payoff, total_squared_payoff,
                   num_threads, omp_reduced, workerVars, spare, cached_by, variates,
                   fnVars>>

(* omp_combine as an assignment instead of a sum *)
omp_combine_overwrite(shared, private) == private

(* how the reduction combines a private copy into the shared variable *)
omp_combine(shared, private) == shared + private

(* the reduction clause: thread t's private copies join the shared totals *)
McOmpReduce(t) ==
    /\ engine = "cpp_omp" /\ pc = "loop" /\ todo = {} /\ t \notin omp_reduced
    /\ total_discounted_payoff' = omp_combine(total_discounted_payoff, omp_private[t].sum)
    /\ total_squared_payoff' = omp_combine(total_squared_payoff, omp_private[t].sq)
    /\ omp_reduced' = omp_reduced \cup {t}
    /\ UNCHANGED <<engine, req, bsVars, pc, i, draws, terminal, mcOut, num_threads, todo,
                   omp_private, workerVars, spare, ghostVars, fnVars>>

(* after the parallel region: the result from the totals *)
McOmpFinish ==
    /\ engine = "cpp_omp" /\ pc = "loop" /\ todo = {}
    /\ omp_reduced = 0..(num_threads - 1)
    /\ mcOut' = mc_result(total_discounted_payoff, total_squared_payoff, req.n_paths)
    /\ pc' = "done"
    /\ UNCHANGED <<engine, req, bsVars, loopVars, ompVars, workerVars, spare, ghostVars, fnVars>>

NextCpp ==
    \/ McEnter
    \/ McSeqIter
    \/ McSeqFinish
    \/ \E t \in 0..(num_threads - 1) : McOmpIter(t)
    \/ \E t \in 0..(num_threads - 1) : McOmpReduce(t)
    \/ McOmpFinish

----------------------------------------------------------------------------
(* JS estimators                                                           *)

(* the pairs (mag*sin, mag*cos) one Box-Muller transform yields *)
ZPairs == Zs \X Zs

(* generateNormalRandom: the cached spare when there is one, else the sine *)
(* variate of a fresh pair, whose cosine variate is cached                 *)
generateNormalRandom(sp, pair) ==
    IF sp # <<>> THEN [Z |-> sp[1], spare |-> <<>>]
    ELSE [Z |-> pair[1], spare |-> <<pair[2]>>]

js_discounted_payoff(q, finalPrice) ==
    Mul(Exp(Mul(-q.r, q.T)),
        IF q.call THEN callPayoff(finalPrice, q.K) ELSE putPayoff(finalPrice, q.K))

(* the loop of runMonteCarloSequential from iteration k on, the variates *)
(* its calls of generateNormalRandom return being zs[1], zs[2], ...      *)
RECURSIVE runMonteCarloSequential_loop(_, _, _, _)
runMonteCarloSequential_loop(q, zs, k, acc) ==
    IF k >= q.n_paths THEN acc
    ELSE LET finalPrice       == simulateGBMPath(q.S0, q.r, q.sigma, q.T, q.steps, zs[k + 1])
             discountedPayoff == js_discounted_payoff(q, finalPrice)
         IN  runMonteCarloSequential_loop(q, zs, k + 1,
                 [totalPayoff        |-> acc.totalPayoff + discountedPayoff,
                  totalSquaredPayoff |-> acc.totalSquaredPayoff
                                             + Mul(discountedPayoff, discountedPayoff),
                  pathCount          |-> acc.pathCount + 1])

(* runMonteCarloSequential as a function of the variates it is given: *)
(* the totals after the loop                                          *)
runMonteCarloSequential(q, zs) ==
    runMonteCarloSequential_loop(q, zs, 0,
        [totalPayoff |-> 0, totalSquaredPayoff |-> 0, pathCount |-> 0])

pathsPerWorker(nPaths, totalWorkers) == nPaths \div totalWorkers

startPath(workerId, nPaths, totalWorkers) == workerId * pathsPerWorker(nPaths, totalWorkers)

(* endPath without the remainder given to the last worker *)
endPath_no_remainder(workerId, nPaths, totalWorkers) ==
    startPath(workerId, nPaths, totalWorkers) + pathsPerWorker(nPaths, totalWorkers)

endPath(workerId, nPaths, totalWorkers) ==
    IF workerId = totalWorkers - 1 THEN nPaths
    ELSE startPath(workerId, nPaths, totalWorkers) + pathsPerWorker(nPaths, totalWorkers)

(* the stream whose call produced the variate the next call returns, and *)
(* the stream that cached the spare left after it                         *)
variate_source(sp, owner, stream) ==
    IF sp # <<>> THEN [from |-> owner[1], cached_by |-> <<>>]
    ELSE [from |-> stream, cached_by |-> <<stream>>]

(* the loop of self.onmessage from path k up to last, run for the share of *)
(* workerId; pairs[k] is the pair a fresh Box-Muller transform yields at   *)
(* path k                                                                  *)
RECURSIVE share_loop(_, _, _, _, _, _)
share_loop(q, workerId, k, last, pairs, acc) ==
    IF k >= last THEN acc
    ELSE LET g          == generateNormalRandom(acc.spare, pairs[k])
             src        == variate_source(acc.spare, acc.cached_by, Stream(workerId))
             finalPrice == simulateGBMPath(q.S0, q.r, q.sigma, q.T, q.steps, g.Z)
             d          == js_discounted_payoff(q, finalPrice)
         IN  share_loop(q, workerId, k + 1, last, pairs,
                 [totalPayoff        |-> acc.totalPayoff + d,
                  totalSquaredPayoff |-> acc.totalSquaredPayoff + Mul(d, d),
                  spare              |-> g.spare,
                  terminal           |-> (k :> finalPrice) @@ acc.terminal,
                  cached_by          |-> src.cached_by,
                  variates           |-> Append(acc.variates, g.Z),
                  hist               |-> (k :> HistEntry("js_worker", workerId, src.from))
                                             @@ acc.hist])

(* runMonteCarloSequential, lines 126-132 *)
JsSeqEnter ==
    /\ engine = "js_seq" /\ pc = "call"
    /\ pc' = "loop"
    /\ i' = 0
    /\ total_discounted_payoff' = 0
    /\ total_squared_payoff' = 0
    /\ UNCHANGED <<engine, req, bsVars, draws, terminal, mcOut, ompVars, workerVars, spare, ghostVars, fnVars>>

(* one iteration of the loop of runMonteCarloSequential *)
JsSeqIter ==
    /\ engine = "js_seq" /\ pc = "loop" /\ i < req.n_paths
    /\ \E pair \in ZPairs :
         LET g          == generateNormalRandom(spare, pair)
             finalPrice == simulateGBMPath(req.S0, req.r, req.sigma, req.T, req.steps, g.Z)
             d          == js_discounted_payoff(req, finalPrice)
             src        == variate_source(spare, cached_by, Stream(0))
         IN  /\ total_discounted_payoff' = total_discounted_payoff + d
             /\ total_squared_payoff' = total_squared_payoff + Mul(d, d)
             /\ spare' = g.spare
             /\ terminal' = (i :> finalPrice) @@ terminal
             /\ cached_by' = src.cached_by
             /\ variates' = Append(variates, g.Z)
             /\ hist' = (i :> HistEntry(engine, 0, src.from)) @@ hist
    /\ draws' = draws + 1
    /\ i' = i + 1
    /\ UNCHANGED <<engine, req, bsVars, pc, mcOut, ompVars, workerVars, fnVars>>

(* runMonteCarloSequential, lines 143-156 *)
JsSeqFinish ==
    /\ engine = "js_seq" /\ pc = "loop" /\ i = req.n_paths
    /\ mcOut' = mc_result(total_discounted_payoff, total_squared_payoff, req.n_paths)
    /\ pc' = "done"
    /\ UNCHANGED <<engine, req, bsVars, loopVars, ompVars, workerVars, spare, ghostVars, fnVars>>

(* share_messages with the last share never posted *)
share_messages_one_short(n) == [k \in 1..(n - 1) |-> k - 1]

(* the workerIds of the messages the posting loop sends, in order *)
share_messages(n) == [k \in 1..n |-> k - 1]

(* runMonteCarloWithWorker, lines 227-232 and 276-283: the worker is created *)
(* and one message per share is posted to it                                 *)
JsWorkerStart ==
    /\ engine = "js_worker" /\ pc = "call"
    /\ inbox' = share_messages(numWorkers)
    /\ results' = <<>>
    /\ completedWorkers' = 0
    /\ pc' = "loop"
    /\ UNCHANGED <<engine, req, bsVars, loopVars, mcOut, ompVars, numWorkers, outbox,
                   terminated, shares, settled, spare, ghostVars, fnVars>>

(* self.onmessage: the worker simulates the share of the message at the head *)
(* of its queue and posts the partial statistics                             *)
WorkerOnMessage ==
    /\ engine = "js_worker" /\ pc = "loop" /\ ~terminated /\ inbox # <<>>
    /\ LET workerId == Head(inbox)
           first    == startPath(workerId, req.n_paths, numWorkers)
           last     == endPath(workerId, req.n_paths, numWorkers)
       IN  \E pairs \in [first..(last - 1) -> ZPairs] :
             LET acc == share_loop(req, workerId, first, last, pairs,
                            [totalPayoff |-> 0, totalSquaredPayoff |-> 0,
                             spare |-> spare, terminal |-> terminal,
                             cached_by |-> cached_by, variates |-> variates,
                             hist |-> hist])
             IN  /\ outbox' = Append(outbox,
                                  [set |-> TRUE, workerId |-> workerId,
                                   totalPayoff |-> acc.totalPayoff,
                                   totalSquaredPayoff |-> acc.totalSquaredPayoff,
                                   pathCount |-> last - first])
                 /\ spare' = acc.spare
                 /\ terminal' = acc.terminal
                 /\ cached_by' = acc.cached_by
                 /\ variates' = acc.variates
                 /\ hist' = acc.hist
                 /\ draws' = draws + Max(last - first, 0)
                 /\ shares' = (workerId :> [startPath |-> first, endPath |-> last]) @@ shares
    /\ inbox' = Tail(inbox)
    /\ UNCHANGED <<engine, req, bsVars, pc, i, total_discounted_payoff,
                   total_squared_payoff, mcOut, ompVars, numWorkers, results,
                   completedWorkers, terminated, settled, fnVars>>

(* all_completed satisfied by the first result to arrive *)
all_completed_first(completed, n) == completed >= 1

(* the condition under which worker.onmessage combines the results *)
all_completed(completed, n) == completed = n

ResultAt(res, k) == IF k \in DOMAIN res THEN res[k] ELSE NoResult

(* the combining loop taking results[0] alone *)
combine_results_first_only(res, k, n, acc) ==
    [totalPayoff        |-> ResultAt(res, 0).totalPayoff,
     totalSquaredPayoff |-> ResultAt(res, 0).totalSquaredPayoff,
     totalPaths         |-> ResultAt(res, 0).pathCount]

(* the combining loop of worker.onmessage over results[0..n-1] *)
RECURSIVE combine_results(_, _, _, _)
combine_results(res, k, n, acc) ==
    IF k >= n THEN acc
    ELSE combine_results(res, k + 1, n,
             [totalPayoff        |-> acc.totalPayoff + ResultAt(res, k).totalPayoff,
              totalSquaredPayoff |-> acc.totalSquaredPayoff
                                         + ResultAt(res, k).totalSquaredPayoff,
              totalPaths         |-> acc.totalPaths + ResultAt(res, k).pathCount])

(* worker.onmessage on the main thread: one partial result is delivered *)
MainOnMessage ==
    /\ engine = "js_worker" /\ pc = "loop" /\ ~terminated /\ outbox # <<>>
    /\ LET data == Head(outbox)
           res  == (data.workerId :> data) @@ results
           tot  == combine_results(res, 0, numWorkers,
                       [totalPayoff |-> 0, totalSquaredPayoff |-> 0, totalPaths |-> 0])
       IN  /\ results' = res
           /\ completedWorkers' = completedWorkers + 1
           /\ IF all_completed(completedWorkers + 1, numWorkers)
              THEN /\ total_discounted_payoff' = tot.totalPayoff
                   /\ total_squared_payoff' = tot.totalSquaredPayoff
                   /\ mcOut' = IF settled = 0
                               THEN mc_result(tot.totalPayoff, tot.totalSquaredPayoff,
                                              tot.totalPaths)
                               ELSE mcOut
                   /\ settled' = settled + 1
                   /\ terminated' = TRUE
                   /\ pc' = "done"
              ELSE UNCHANGED <<total_discounted_payoff, total_squared_payoff, mcOut,
                               settled, terminated, pc>>
    /\ outbox' = Tail(outbox)
    /\ UNCHANGED <<engine, req, bsVars, i, draws, terminal, ompVars, numWorkers, inbox,
                   shares, spare, ghostVars, fnVars>>

(* worker.onerror resolving with the statistics of the results received *)
onerror_settlement_partial(res, n) ==
    LET tot == combine_results(res, 0, n,
                   [totalPayoff |-> 0, totalSquaredPayoff |-> 0, totalPaths |-> 0])
    IN  mc_result(tot.totalPayoff, tot.totalSquaredPayoff, tot.totalPaths)

(* what worker.onerror settles the promise with: reject(error), whatever *)
(* partial results were received                                         *)
onerror_settlement(res, n) == McReject

(* worker.onerror: the worker reported an error *)
WorkerOnError ==
    /\ engine = "js_worker" /\ pc = "loop" /\ ~terminated
    /\ terminated' = TRUE
    /\ mcOut' = IF settled = 0 THEN onerror_settlement(results, numWorkers) ELSE mcOut
    /\ settled' = settled + 1
    /\ pc' = "done"
    /\ UNCHANGED <<engine, req, bsVars, loopVars, ompVars, numWorkers, inbox, outbox,
                   results, completedWorkers, shares, spare, ghostVars, fnVars>>

NextJs ==
    \/ JsSeqEnter
    \/ JsSeqIter
    \/ JsSeqFinish
    \/ JsWorkerStart
    \/ WorkerOnMessage
    \/ MainOnMessage
    \/ WorkerOnError

NextMC == NextCpp \/ NextJs

SpecMC == InitMC /\ [][NextMC]_vars

(* the steps a running program takes on its own.  EntryStep: the call     *)
(* starts executing.  LoopStep: the thread (or team) in monte_carlo_price *)
(* keeps executing, the sequential JS loop keeps executing, and the event *)
(* loops of the worker and of the main thread handle the messages queued  *)
(* to them.  worker.onerror needs an error to happen, which nothing       *)
(* forces                                                                 *)
EntryStep == McEnter \/ JsSeqEnter \/ JsWorkerStart

LoopStep ==
    \/ McSeqIter \/ McSeqFinish
    \/ \E t \in 0..(num_threads - 1) : McOmpIter(t)
    \/ \E t \in 0..(num_threads - 1) : McOmpReduce(t)
    \/ McOmpFinish
    \/ JsSeqIter \/ JsSeqFinish
    \/ WorkerOnMessage \/ MainOnMessage

(* the states in which LoopStep can be taken, from the guards of its *)
(* actions: ENABLED <<LoopStep>>_vars written out                    *)
LoopStepEnabled ==
    /\ pc = "loop"
    /\ \/ engine \in {"cpp_seq", "js_seq"} /\ i <= req.n_paths
       \/ engine = "cpp_omp"
       \/ engine = "js_worker" /\ ~terminated /\ (inbox # <<>> \/ outbox # <<>>)

(* weak fairness of EntryStep and of LoopStep, the latter in the form *)
(* []<>(~ENABLED <<A>>_v) \/ []<><<A>>_v of WF_v(A)                   *)
FairMC ==
    /\ WF_vars(EntryStep)
    /\ ([]<>~LoopStepEnabled) \/ ([]<><<LoopStep>>_vars)

(* LoopStepEnabled is the enabling condition of LoopStep *)
LoopStepEnabledIsEnabling == LoopStepEnabled <=> ENABLED <<LoopStep>>_vars

(* one half of it as a property of steps: LoopStep is taken only where *)
(* LoopStepEnabled holds, and changes the state                        *)
LoopStepOnlyWhenEnabled == [][LoopStep => (LoopStepEnabled /\ vars' # vars)]_vars

SpecMCFair == SpecMC /\ FairMC

----------------------------------------------------------------------------
(* Payoffs, path generation and the accuracy tests applied to their inputs *)

estimatorVars == <<pc, loopVars, mcOut, ompVars, workerVars, spare, ghostVars>>

(* the values the payoff functions are applied to: negative, zero, below, *)
(* at and above one                                                       *)
PayoffArgs == {-ONE, 0, ONE \div 2, ONE, ONE + ONE \div 2}

IdleRequest ==
    [S0 |-> ONE, sigma |-> 0, T |-> ONE, steps |-> 1, K |-> ONE, call |-> TRUE,
     n_paths |-> 1, r |-> 0]

(* the parameters of test_pricer.cpp, prices in units of 100: S0 = K = 100.0 *)
(* is ONE.  The closed-form price is homogeneous of degree one in (S0, K)   *)
(* and a relative error has no unit                                         *)
TestRequest ==
    [S0 |-> ONE, sigma |-> ONE \div 5, T |-> ONE, steps |-> 252, K |-> ONE,
     call |-> TRUE, n_paths |-> 10000000, r |-> ONE \div 20]

tolerance == ONE \div 100

calculate_error_percent(expected, actual) == Div(Abs(actual - expected), expected) * 100

(* the prices monte_carlo_price may return to a test: a grid around the *)
(* reference price that reaches beyond one per cent of it on both sides *)
McPrices(bs_price) ==
    {bs_price + d : d \in (-(bs_price \div 50))..(bs_price \div 50)}

(* the body of test_call_accuracy and test_put_accuracy after the two *)
(* prices were computed: the TestResult returned                      *)
accuracy_result(bs_price, mc_price) ==
    LET error_percent == calculate_error_percent(bs_price, mc_price)
        passed        == error_percent <= tolerance
    IN  [passed |-> passed, expected |-> bs_price, actual |-> mc_price,
         error_percent |-> error_percent,
         message |-> IF passed THEN "PASSED" ELSE "FAILED"]

(* how main() ends: exit status, or std::terminate on an exception nothing *)
(* catches; pricing_calls counts the pricing calls entered before          *)
MainExit(code, calls) ==
    [status |-> "exit", code |-> code, what |-> "", pricing_calls |-> calls]

MainTerminate(msg, calls) ==
    [status |-> "terminate", code |-> 0, what |-> msg, pricing_calls |-> calls]

(* the test "Validate parameters" of main, and that of parse_int on the *)
(* values of -steps and -paths                                          *)
main_rejects(q) ==
    \/ q.S0 <= 0 \/ q.K <= 0 \/ q.sigma < 0 \/ q.T <= 0
    \/ q.steps <= 0 \/ q.n_paths <= 0

(* main() on the parsed parameters: validation, bs_call, bs_put, then *)
(* monte_carlo_price for the call and for the put; main has no try    *)
main(q) ==
    IF main_rejects(q) THEN MainExit(1, 0)
    ELSE IF bs_call_check(q.S0, q.K, q.sigma, q.T) # ""
    THEN MainTerminate(bs_call_check(q.S0, q.K, q.sigma, q.T), 1)
    ELSE IF bs_put_check(q.S0, q.K, q.sigma, q.T) # ""
    THEN MainTerminate(bs_put_check(q.S0, q.K, q.sigma, q.T), 2)
    ELSE IF monte_carlo_price_check(q.K, q.n_paths, q.r) # ""
    THEN MainTerminate(monte_carlo_price_check(q.K, q.n_paths, q.r), 3)
    ELSE IF simulate_path_check(q, q.r) # ""
    THEN MainTerminate(simulate_path_check(q, q.r), 3)
    ELSE MainExit(0, 4)

InitFn ==
    /\ engine \in {"payoffs", "simulate_path", "test_pricer", "cli"}
    /\ ClosedFormIdle
    /\ EstimatorIdle
    /\ req \in (IF engine = "simulate_path"
                 THEN {q \in Requests : q.K = ONE /\ q.call /\ q.n_paths = 1}
                 ELSE IF engine = "cli" THEN {q \in Requests : q.call}
                 ELSE IF engine = "test_pricer" THEN {TestRequest}
                 ELSE {IdleRequest})
    /\ payoff_S \in (IF engine = "payoffs" THEN PayoffArgs ELSE {0})
    /\ payoff_K \in (IF engine = "payoffs" THEN PayoffArgs ELSE {0})
    /\ out_european_call = NotCalled /\ out_european_put = NotCalled
    /\ out_callPayoff = NotCalled /\ out_putPayoff = NotCalled
    /\ randn_seq \in (IF engine = "simulate_path" THEN [1..(MaxSteps + 1) -> Zs]
                       ELSE {<<>>})
    /\ randn_pos = 0
    /\ out_path = NotCalled
    /\ TestsIdle /\ FormIdle /\ MainIdle

Call_european_call ==
    /\ engine = "payoffs" /\ out_european_call = NotCalled
    /\ out_european_call' = Return(european_call(payoff_S, payoff_K))
    /\ UNCHANGED <<engine, req, bsVars, estimatorVars, formVars, out_main, payoff_S, payoff_K,
                   out_european_put, out_callPayoff, out_putPayoff, pathVars, testVars>>

Call_european_put ==
    /\ engine = "payoffs" /\ out_european_put = NotCalled
    /\ out_european_put' = Return(european_put(payoff_S, payoff_K))
    /\ UNCHANGED <<engine, req, bsVars, estimatorVars, formVars, out_main, payoff_S, payoff_K,
                   out_european_call, out_callPayoff, out_putPayoff, pathVars, testVars>>

Call_callPayoff ==
    /\ engine = "payoffs" /\ out_callPayoff = NotCalled
    /\ out_callPayoff' = Return(callPayoff(payoff_S, payoff_K))
    /\ UNCHANGED <<engine, req, bsVars, estimatorVars, formVars, out_main, payoff_S, payoff_K,
                   out_european_call, out_european_put, out_putPayoff, pathVars, testVars>>

Call_putPayoff ==
    /\ engine = "payoffs" /\ out_putPayoff = NotCalled
    /\ out_putPayoff' = Return(putPayoff(payoff_S, payoff_K))
    /\ UNCHANGED <<engine, req, bsVars, estimatorVars, formVars, out_main, payoff_S, payoff_K,
                   out_european_call, out_european_put, out_callPayoff, pathVars, testVars>>

(* simulate_path(req, req.r): each pass of its loop calls randn() once, so *)
(* the call consumes one value of the stream for every price it appends    *)
Call_simulate_path ==
    /\ engine = "simulate_path" /\ out_path = NotCalled
    /\ LET msg == simulate_path_check(req, req.r)
           zs  == SubSeq(randn_seq, randn_pos + 1, Len(randn_seq))
       IN  IF msg # ""
           THEN /\ out_path' = Throw(msg)
                /\ randn_pos' = randn_pos
           ELSE /\ out_path' = Return(simulate_path(req, req.r, zs))
                /\ randn_pos' = randn_pos + (Len(simulate_path(req, req.r, zs)) - 1)
    /\ UNCHANGED <<engine, req, bsVars, estimatorVars, formVars, out_main, payoffVars, randn_seq, testVars>>

test_call_accuracy ==
    /\ engine = "test_pricer" /\ out_test_call = NotCalled
    /\ LET bs_price == bs_call(req.S0, req.K, req.r, req.sigma, req.T).value
       IN  \E mc_price \in McPrices(bs_price) :
             out_test_call' = Return(accuracy_result(bs_price, mc_price))
    /\ UNCHANGED <<engine, req, bsVars, estimatorVars, formVars, out_main, payoffVars, pathVars, out_test_put>>

test_put_accuracy ==
    /\ engine = "test_pricer" /\ out_test_put = NotCalled
    /\ LET bs_price == bs_put(req.S0, req.K, req.r, req.sigma, req.T).value
       IN  \E mc_price \in McPrices(bs_price) :
             out_test_put' = Return(accuracy_result(bs_price, mc_price))
    /\ UNCHANGED <<engine, req, bsVars, estimatorVars, formVars, out_main, payoffVars, pathVars, out_test_call>>

(* one run of the command-line tool on the parameters of req *)
Call_main ==
    /\ engine = "cli" /\ out_main = MainNotCalled
    /\ out_main' = main(req)
    /\ UNCHANGED <<engine, req, bsVars, estimatorVars, formVars, payoffVars, pathVars,
                   testVars>>

NextFn ==
    \/ Call_main
    \/ test_call_accuracy
    \/ test_put_accuracy
    \/ Call_european_call
    \/ Call_european_put
    \/ Call_callPayoff
    \/ Call_putPayoff
    \/ Call_simulate_path

SpecFn == InitFn /\ [][NextFn]_vars

----------------------------------------------------------------------------
(* The form of the browser page (src/js/app.js)                            *)

(* calculatePrices calls that may be awaiting their runs at one time *)
MaxCalculations == 2

(* what an input may hold: nothing, text that is no number, a number *)
(* below the minimum, a number in range                              *)
FieldTexts == {"", "abc", "-1", "50"}

parseFloat(text) ==
    CASE text = "50" -> 50
      [] text = "-1" -> -1
      [] OTHER       -> NaN

(* the min and max attributes of an input; absent, the code falls back *)
(* to 0 and Infinity                                                   *)
input_min == ""

input_max == ""

(* the test of validateInput on the input's own value *)
out_of_range(text) ==
    LET value == parseFloat(text)
        min   == IF parseFloat(input_min) \in {NaN, 0} THEN 0 ELSE parseFloat(input_min)
    IN  \/ value = NaN
        \/ value < min
        \/ (parseFloat(input_max) \notin {NaN, 0} /\ value > parseFloat(input_max))

(* validateInput(input): the value of calculateBtn.disabled it leaves *)
validateInput(values, input) ==
    LET allFieldsFilled == \A field \in Fields : values[field] # ""
    IN  IF values[input] = "" THEN TRUE
        ELSE IF out_of_range(values[input]) THEN TRUE
        ELSE ~allFieldsFilled

(* getInputParameters: the message of the Error it throws, "" if none *)
getInputParameters_check(values) ==
    IF \E field \in Fields : values[field] = ""
    THEN "Please fill in the following fields"
    ELSE IF parseFloat(values["s0"]) = NaN \/ parseFloat(values["s0"]) <= 0
    THEN "Initial Stock Price must be a positive number"
    ELSE IF parseFloat(values["k"]) = NaN \/ parseFloat(values["k"]) <= 0
    THEN "Strike Price must be a positive number"
    ELSE IF parseFloat(values["r"]) = NaN \/ parseFloat(values["r"]) < 0
    THEN "Risk-Free Rate must be a non-negative number"
    ELSE IF parseFloat(values["sigma"]) = NaN \/ parseFloat(values["sigma"]) < 0
    THEN "Volatility must be a non-negative number"
    ELSE IF parseFloat(values["t"]) = NaN \/ parseFloat(values["t"]) <= 0
    THEN "Time to Maturity must be a positive number"
    ELSE IF parseFloat(values["steps"]) = NaN \/ parseFloat(values["steps"]) <= 0
    THEN "Time Steps must be a positive number"
    ELSE ""

InitForm ==
    /\ engine = "form"
    /\ req = IdleRequest
    /\ ClosedFormIdle
    /\ EstimatorIdle
    /\ PayoffsIdle /\ PathIdle /\ TestsIdle /\ MainIdle
    /\ FormIdle

(* an input event on one of the six inputs: the listener of *)
(* addInputValidation calls validateInput on it             *)
InputEvent ==
    /\ engine = "form"
    /\ \E input \in Fields, text \in FieldTexts :
         /\ text # field_value[input]
         /\ field_value' = [field_value EXCEPT ![input] = text]
         /\ calculateBtn_disabled' = validateInput(field_value', input)
    /\ UNCHANGED <<engine, req, bsVars, estimatorVars, payoffVars, pathVars, testVars,
                   calculations, out_main>>

(* a click on the Calculate button (a disabled button fires no click):   *)
(* calculatePrices up to its await.  disableForm, then getInputParameters *)
(* throws and the finally block runs enableForm, or the call suspends    *)
(* on the two runs                                                       *)
ClickCalculate ==
    /\ engine = "form"
    /\ ~calculateBtn_disabled
    /\ calculations < MaxCalculations
    /\ IF getInputParameters_check(field_value) # ""
       THEN /\ calculateBtn_disabled' = FALSE
            /\ calculations' = calculations
       ELSE /\ calculateBtn_disabled' = TRUE
            /\ calculations' = calculations + 1
    /\ UNCHANGED <<engine, req, bsVars, estimatorVars, payoffVars, pathVars, testVars,
                   field_value, out_main>>

(* the two runs of a calculatePrices call settle: displayResults or *)
(* showError, then the finally block: hideLoading, enableForm       *)
CalculationSettles ==
    /\ engine = "form"
    /\ calculations > 0
    /\ calculations' = calculations - 1
    /\ calculateBtn_disabled' = FALSE
    /\ UNCHANGED <<engine, req, bsVars, estimatorVars, payoffVars, pathVars, testVars,
                   field_value, out_main>>

(* a click on the Reset button *)
resetForm ==
    /\ engine = "form"
    /\ field_value' = [f \in Fields |-> ""]
    /\ calculateBtn_disabled' = TRUE
    /\ UNCHANGED <<engine, req, bsVars, estimatorVars, payoffVars, pathVars, testVars,
                   calculations, out_main>>

NextForm ==
    \/ InputEvent
    \/ ClickCalculate
    \/ CalculationSettles
    \/ resetForm

SpecForm == InitForm /\ [][NextForm]_vars

----------------------------------------------------------------------------
(* The accumulation loop and the result, applied to discounted payoffs     *)

(* the discounted payoffs the loop is fed: zero, three values one unit of *)
(* the arithmetic apart, and a large one                                  *)
DiscountedPayoffs == {0, 99, 100, 101, ONE}

InitAcc ==
    /\ engine = "accumulate"
    /\ req \in {[IdleRequest EXCEPT !.n_paths = n, !.sigma = ONE \div 5] : n \in 1..MaxPaths}
    /\ ClosedFormIdle
    /\ PayoffsIdle /\ PathIdle /\ TestsIdle /\ FormIdle /\ MainIdle
    /\ pc = "loop" /\ i = 0
    /\ total_discounted_payoff = 0 /\ total_squared_payoff = 0
    /\ mcOut = McNone /\ draws = 0 /\ terminal = <<>>
    /\ num_threads = 1 /\ todo = {} /\ omp_private = <<>> /\ omp_reduced = {}
    /\ numWorkers = 1 /\ inbox = <<>> /\ outbox = <<>> /\ results = <<>>
    /\ completedWorkers = 0 /\ spare = <<>> /\ terminated = FALSE /\ settled = 0
    /\ shares = <<>> /\ hist = <<>> /\ cached_by = <<>> /\ variates = <<>>

(* the two += of the loop body, on the discounted payoff of one path *)
AccumulateIter ==
    /\ engine = "accumulate" /\ pc = "loop" /\ i < req.n_paths
    /\ \E d \in DiscountedPayoffs :
         /\ total_discounted_payoff' = total_discounted_payoff + d
         /\ total_squared_payoff' = total_squared_payoff + Mul(d, d)
    /\ i' = i + 1
    /\ UNCHANGED <<engine, req, bsVars, pc, draws, terminal, mcOut, ompVars, workerVars,
                   spare, ghostVars, fnVars>>

(* the statistics after the loop *)
AccumulateFinish ==
    /\ engine = "accumulate" /\ pc = "loop" /\ i = req.n_paths
    /\ mcOut' = mc_result(total_discounted_payoff, total_squared_payoff, req.n_paths)
    /\ pc' = "done"
    /\ UNCHANGED <<engine, req, bsVars, loopVars, ompVars, workerVars, spare, ghostVars,
                   fnVars>>

NextAcc == AccumulateIter \/ AccumulateFinish

SpecAcc == InitAcc /\ [][NextAcc]_vars

----------------------------------------------------------------------------
(* Properties of the closed-form pricers (checked under SpecBS)            *)

(* tolerance for comparisons of prices: rounding of the fixed-point model *)
PriceTol == ONE \div 2000

(* K * e^(-rT) for the request *)
DiscountedStrike == Mul(req.K, Exp(Mul(-req.r, req.T)))

ClosedFormValid == req.S0 > 0 /\ req.K > 0 /\ req.sigma >= 0 /\ req.T > 0

ClosedFormOuts == {out_bs_call, out_bs_put, out_bsCall, out_bsPut}

(* C1: with sigma = 0 and S0, K, T > 0 the closed-form pricers return     *)
(* call = max(S0 - K e^(-rT), 0) and put = max(K e^(-rT) - S0, 0), in C++ *)
(* and in JS                                                              *)
C1_ZeroVolatilityIntrinsic ==
    (ClosedFormValid /\ req.r >= 0 /\ req.sigma = 0) =>
        /\ out_bs_call.status # "none" =>
               out_bs_call = Return(Max(req.S0 - DiscountedStrike, 0))
        /\ out_bsCall.status # "none" =>
               out_bsCall = Return(Max(req.S0 - DiscountedStrike, 0))
        /\ out_bs_put.status # "none" =>
               out_bs_put = Return(Max(DiscountedStrike - req.S0, 0))
        /\ out_bsPut.status # "none" =>
               out_bsPut = Return(Max(DiscountedStrike - req.S0, 0))

(* C2: put-call parity of the C++ closed-form pricer: for every valid     *)
(* input, sigma = 0 included, bs_call - bs_put = S0 - K e^(-rT) (up to    *)
(* the rounding of the arithmetic)                                        *)
C2_PutCallParity ==
    (ClosedFormValid /\ req.r >= 0 /\ out_bs_call.status = "return" /\ out_bs_put.status = "return") =>
        Abs((out_bs_call.value - out_bs_put.value) - (req.S0 - DiscountedStrike))
            <= PriceTol

(* parity away from the zero-volatility branch *)
ParityPositiveVolatility ==
    (ClosedFormValid /\ req.sigma > 0) =>
        /\ (out_bs_call.status = "return" /\ out_bs_put.status = "return") =>
               Abs((out_bs_call.value - out_bs_put.value) - (req.S0 - DiscountedStrike))
                   <= PriceTol
        /\ (out_bsCall.status = "return" /\ out_bsPut.status = "return") =>
               Abs((out_bsCall.value - out_bsPut.value) - (req.S0 - DiscountedStrike))
                   <= PriceTol

(* the field a failure message names, "none" when it names no field *)
FieldNamed(what) ==
    CASE what \in {"Stock price S0 must be positive",
                   "Initial stock price S0 must be positive"} -> "S0"
      [] what = "Strike price K must be positive" -> "K"
      [] what = "Risk-free rate r must be non-negative" -> "r"
      [] what = "Volatility sigma must be non-negative" -> "sigma"
      [] what = "Time to maturity T must be positive" -> "T"
      [] what = "Number of steps must be positive" -> "steps"
      [] what = "Number of paths must be positive" -> "n_paths"
      [] OTHER -> "none"

(* the fields of the request that break a constraint of the closed-form pricer *)
ClosedFormViolations ==
    {f \in {"S0", "K", "sigma", "T"} :
        \/ f = "S0" /\ req.S0 <= 0
        \/ f = "K" /\ req.K <= 0
        \/ f = "sigma" /\ req.sigma < 0
        \/ f = "T" /\ req.T <= 0}

(* C4: a request that breaks exactly one constraint yields a failure that *)
(* names the broken field, at every closed-form entry point               *)
C4_NamedDistinctFailures ==
    \A f \in ClosedFormViolations :
        ClosedFormViolations = {f} =>
            \A o \in ClosedFormOuts :
                o.status # "none" => (o.status = "throw" /\ FieldNamed(o.what) = f)

(* C5: bs_call and bs_put (and bsCall, bsPut) fail without a price exactly *)
(* when S0 <= 0 or K <= 0 or sigma < 0 or T <= 0, and return a price for   *)
(* every other input                                                       *)
C5_RejectExactlyInvalid ==
    \A o \in ClosedFormOuts :
        o.status # "none" =>
            IF req.S0 <= 0 \/ req.K <= 0 \/ req.sigma < 0 \/ req.T <= 0
            THEN o.status = "throw" /\ o.value = 0
            ELSE o.status = "return" /\ o.what = ""

(* C5 witness: bs_put rejected a request whose only defect is T = 0, and *)
(* bs_call was applied to the same request                               *)
C5_Witness ==
    /\ req.S0 > 0 /\ req.K > 0 /\ req.sigma >= 0 /\ req.T = 0
    /\ out_bs_put.status = "throw"
    /\ out_bs_call.status = "throw"
    /\ out_bsPut.status = "throw"

----------------------------------------------------------------------------
(* Properties of the estimators (checked under SpecMC)                     *)

RECURSIVE SumOver(_, _)
SumOver(f, S) ==
    IF S = {} THEN 0
    ELSE LET x == CHOOSE x \in S : TRUE
         IN  f[x] + SumOver(f, S \ {x})

Cpp == engine \in {"cpp_seq", "cpp_omp"}

(* the discounted payoff the request assigns to a terminal price *)
ExpectedDiscounted(S_T) ==
    Mul(Exp(Mul(-req.r, req.T)),
        IF req.call THEN Max(S_T - req.K, 0) ELSE Max(req.K - S_T, 0))

(* C3: a request that breaks any of K > 0, n_paths >= 1, r >= 0, S0 > 0,  *)
(* sigma >= 0, T > 0, steps >= 1 makes monte_carlo_price end with a       *)
(* validation failure delivered to its caller, with no random draw, no    *)
(* payoff accumulated and no result, in the sequential and the parallel   *)
(* build                                                                  *)
C3_InvalidRequestFailsFast ==
    (Cpp /\ ~ValidRequest(req) /\ pc = "done") =>
        /\ mcOut.status = "throw"
        /\ FieldNamed(mcOut.what) # "none"
        /\ draws = 0 /\ terminal = <<>>
        /\ total_discounted_payoff = 0 /\ total_squared_payoff = 0

(* the same for the sequential build alone *)
InvalidRequestFailsFastSequential ==
    (engine = "cpp_seq" /\ ~ValidRequest(req) /\ pc = "done") =>
        /\ mcOut.status = "throw"
        /\ FieldNamed(mcOut.what) # "none"
        /\ draws = 0 /\ terminal = <<>>
        /\ total_discounted_payoff = 0 /\ total_squared_payoff = 0

(* the closed-form price of the request, by the pricer of the engine's language *)
ClosedFormPrice ==
    IF Cpp
    THEN (IF req.call THEN bs_call(req.S0, req.K, req.r, req.sigma, req.T)
          ELSE bs_put(req.S0, req.K, req.r, req.sigma, req.T))
    ELSE (IF req.call THEN bsCall(req.S0, req.K, req.r, req.sigma, req.T)
          ELSE bsPut(req.S0, req.K, req.r, req.sigma, req.T))

(* C6: with sigma = 0 and otherwise valid parameters the estimator        *)
(* completes without error, every path yields the same discounted payoff, *)
(* the standard error is 0 and the price equals the closed-form price for *)
(* the same parameters                                                    *)
C6_ZeroVolatilityEstimate ==
    (ValidRequest(req) /\ req.sigma = 0 /\ pc = "done" /\ mcOut.status # "reject") =>
        /\ mcOut.status = "return"
        /\ \A a, b \in DOMAIN terminal :
               ExpectedDiscounted(terminal[a]) = ExpectedDiscounted(terminal[b])
        /\ mcOut.stderr = 0
        /\ Abs(mcOut.price - ClosedFormPrice.value) <= PriceTol

(* C6 without the comparison with the closed-form price *)
ZeroVolatilityDeterministic ==
    (ValidRequest(req) /\ req.sigma = 0 /\ pc = "done" /\ mcOut.status # "reject") =>
        /\ mcOut.status = "return"
        /\ \A a, b \in DOMAIN terminal :
               ExpectedDiscounted(terminal[a]) = ExpectedDiscounted(terminal[b])
        /\ mcOut.stderr = 0

(* C7: when the simulation of a valid request ends, the totals are the sum *)
(* and the sum of squares of exactly n_paths discounted payoffs, one per   *)
(* path, and price = total_sum / n_paths, standard_error =                 *)
(* sqrt((total_sum_sq / n_paths - price^2) / n_paths)                      *)
C7_TotalsAndResult ==
    (pc = "done" /\ mcOut.status = "return") =>
        LET D  == [k \in DOMAIN terminal |-> ExpectedDiscounted(terminal[k])]
            D2 == [k \in DOMAIN terminal |-> Mul(D[k], D[k])]
        IN  /\ ValidRequest(req)
            /\ DOMAIN terminal = 0..(req.n_paths - 1)
            /\ total_discounted_payoff = SumOver(D, DOMAIN D)
            /\ total_squared_payoff = SumOver(D2, DOMAIN D2)
            /\ mcOut.price = total_discounted_payoff \div req.n_paths
            /\ mcOut.stderr =
                   Sqrt((total_squared_payoff \div req.n_paths
                             - Mul(mcOut.price, mcOut.price)) \div req.n_paths)

(* C7 witness: the parallel C++ estimator returned a result for MaxPaths *)
(* paths with positive volatility and rate, some path in the money       *)
C7_Witness ==
    /\ engine = "cpp_omp" /\ pc = "done" /\ mcOut.status = "return"
    /\ req.n_paths = MaxPaths /\ req.sigma > 0 /\ req.r > 0
    /\ total_discounted_payoff > 0
    /\ mcOut.stderr > 0

SharesOf(w) == shares[w].endPath - shares[w].startPath

(* the partial results the worker has posted so far, delivered or not *)
Posted == {outbox[k] : k \in DOMAIN outbox} \cup {results[w] : w \in DOMAIN results}

(* C8: workers 0..W-2 are each assigned floor(n_paths / W) paths and the   *)
(* last worker all the rest; the index ranges are contiguous and pairwise  *)
(* disjoint, and the reported path counts sum to n_paths                   *)
C8_Partition ==
    engine = "js_worker" =>
        /\ \A w \in DOMAIN shares :
               /\ w < numWorkers - 1 => SharesOf(w) = req.n_paths \div numWorkers
               /\ w = numWorkers - 1 =>
                      SharesOf(w) = req.n_paths - (numWorkers - 1) * (req.n_paths \div numWorkers)
               /\ shares[w].startPath = (IF w = 0 THEN 0 ELSE shares[w - 1].endPath)
               /\ w = numWorkers - 1 => shares[w].endPath = req.n_paths
        /\ \A v, w \in DOMAIN shares :
               v # w => (shares[v].startPath..(shares[v].endPath - 1))
                            \cap (shares[w].startPath..(shares[w].endPath - 1)) = {}
        /\ \A m \in Posted : m.workerId \in DOMAIN shares /\ m.pathCount = SharesOf(m.workerId)
        /\ mcOut.status = "return" =>
               SumOver([w \in DOMAIN results |-> results[w].pathCount], DOMAIN results)
                   = req.n_paths

(* C8 witness: two shares of a run of three paths, both delivered *)
C8_Witness ==
    /\ engine = "js_worker" /\ mcOut.status = "return"
    /\ numWorkers >= 2 /\ req.n_paths % numWorkers # 0
    /\ req.n_paths > numWorkers
    /\ DOMAIN shares = 0..(numWorkers - 1)

C10_ResultOnceAfterAll ==
    /\ settled <= 1
    /\ (engine = "js_worker" /\ mcOut.status = "return") =>
           /\ settled = 1
           /\ completedWorkers = numWorkers
           /\ DOMAIN results = 0..(numWorkers - 1)
           /\ \A w \in DOMAIN results : results[w].workerId = w
           /\ inbox = <<>> /\ outbox = <<>>
           /\ DOMAIN terminal = 0..(req.n_paths - 1)
    /\ (engine = "js_worker" /\ completedWorkers = numWorkers) => mcOut.status = "return"
    /\ (engine = "cpp_omp" /\ mcOut.status = "return") =>
           /\ todo = {}
           /\ omp_reduced = 0..(num_threads - 1)
           /\ DOMAIN terminal = 0..(req.n_paths - 1)

(* C10 witness: a run of two shares resolved after both were delivered *)
C10_Witness ==
    /\ engine = "js_worker" /\ mcOut.status = "return" /\ settled = 1
    /\ numWorkers = MaxWorkers /\ completedWorkers = numWorkers
    /\ req.n_paths >= numWorkers

----------------------------------------------------------------------------
(* Properties of the workers and their random streams (checked under SpecMC) *)

(* the paths simulated so far by worker w *)
PathsOf(w) == {k \in DOMAIN hist : hist[k].worker = w}

(* the discounted payoff of path k, from its terminal price *)
DiscountedAt(k) == ExpectedDiscounted(terminal[k])

DiscountedSum(S) == SumOver([k \in S |-> DiscountedAt(k)], S)

DiscountedSquareSum(S) ==
    SumOver([k \in S |-> Mul(DiscountedAt(k), DiscountedAt(k))], S)

(* C11: during accumulation every worker writes only its own private sum   *)
(* and sum of squares: each private accumulator holds the contributions of *)
(* exactly the paths its worker simulated, every path simulated belongs to *)
(* one worker, and the shared totals stay untouched until the final        *)
(* reduction                                                               *)
C11_PrivateAccumulation ==
    /\ engine = "cpp_omp" =>
           /\ \A t \in DOMAIN omp_private :
                  /\ omp_private[t].sum = DiscountedSum(PathsOf(t))
                  /\ omp_private[t].sq = DiscountedSquareSum(PathsOf(t))
           /\ DOMAIN hist = DOMAIN terminal
           /\ \A k \in DOMAIN hist : hist[k].worker \in DOMAIN omp_private
           /\ (pc = "loop" /\ todo # {}) =>
                  /\ DOMAIN hist = (0..(req.n_paths - 1)) \ todo
                  /\ total_discounted_payoff = 0 /\ total_squared_payoff = 0
    /\ engine = "js_worker" =>
           /\ \A m \in Posted :
                  /\ m.totalPayoff = DiscountedSum(PathsOf(m.workerId))
                  /\ m.totalSquaredPayoff = DiscountedSquareSum(PathsOf(m.workerId))
           /\ DOMAIN hist = DOMAIN terminal
           /\ \A k \in DOMAIN hist :
                  /\ hist[k].worker \in DOMAIN shares
                  /\ k \in shares[hist[k].worker].startPath
                              ..(shares[hist[k].worker].endPath - 1)
           /\ mcOut.status # "return" =>
                  total_discounted_payoff = 0 /\ total_squared_payoff = 0

(* C11 witness: two threads each accumulated a path of positive payoff on *)
(* their private copies while an iteration is still to run                *)
C11_Witness ==
    /\ engine = "cpp_omp" /\ pc = "loop" /\ todo # {}
    /\ PathsOf(0) # {} /\ PathsOf(1) # {}
    /\ omp_private[0].sum > 0 /\ omp_private[1].sum > 0

(* C12: no generator state is used by two workers: the paths that drew *)
(* their variates from one generator instance were all simulated by    *)
(* one worker, C++ threads and JS worker shares alike                  *)
C12_GeneratorPerWorker ==
    \A j, k \in DOMAIN hist :
        hist[j].generator = hist[k].generator => hist[j].worker = hist[k].worker

(* the same for the threads of the C++ estimator alone *)
GeneratorPerThread ==
    Cpp => \A j, k \in DOMAIN hist :
               hist[j].generator = hist[k].generator => hist[j].worker = hist[k].worker

(* C13: a variate cached by the Box-Muller source is returned only within *)
(* the stream that produced it: every path consumed a variate produced by *)
(* a call of its own worker share in its own pricing run, and a spare is  *)
(* held only for the stream that cached it                                *)
C13_SparePrivatePerStream ==
    /\ \A k \in DOMAIN hist : hist[k].variate_from = Stream(hist[k].worker)
    /\ (spare = <<>>) <=> (cached_by = <<>>)

----------------------------------------------------------------------------
(* Properties of the payoffs, the path generator and the tests (SpecFn)    *)

(* max(a, 0), written out *)
Floor0(a) == IF a > 0 THEN a ELSE 0

(* C15: european_call(S, K) = max(S - K, 0) and european_put(S, K) =      *)
(* max(K - S, 0), as are the JS payoffs; the results are never negative,  *)
(* are determined by S and K alone and no other state changes             *)
C15_PayoffsPure ==
    /\ out_european_call.status = "return" =>
           /\ out_european_call.value = Floor0(payoff_S - payoff_K)
           /\ out_european_call.value >= 0
    /\ out_european_put.status = "return" =>
           /\ out_european_put.value = Floor0(payoff_K - payoff_S)
           /\ out_european_put.value >= 0
    /\ out_callPayoff.status = "return" =>
           /\ out_callPayoff.value = Floor0(payoff_S - payoff_K)
           /\ out_callPayoff.value >= 0
    /\ out_putPayoff.status = "return" =>
           /\ out_putPayoff.value = Floor0(payoff_K - payoff_S)
           /\ out_putPayoff.value >= 0
    /\ engine = "payoffs" =>
           /\ ClosedFormIdle /\ EstimatorIdle /\ PathIdle /\ TestsIdle
           /\ req = IdleRequest
    /\ engine # "payoffs" => PayoffsIdle

(* C15 witness: all four payoffs were computed for a price above the    *)
(* strike: the calls pay the difference, the puts nothing               *)
C15_Witness ==
    /\ engine = "payoffs" /\ payoff_S > payoff_K /\ payoff_K > 0
    /\ out_european_call.status = "return" /\ out_european_call.value > 0
    /\ out_european_put.status = "return" /\ out_european_put.value = 0
    /\ out_callPayoff.status = "return" /\ out_callPayoff.value > 0
    /\ out_putPayoff.status = "return" /\ out_putPayoff.value = 0

(* the preconditions of simulate_path *)
ValidPathParams(q) ==
    q.S0 > 0 /\ q.sigma >= 0 /\ q.T > 0 /\ q.steps >= 1 /\ q.r >= 0

(* exp((r - sigma^2 / 2) dt + sigma sqrt(dt) Z) with dt = T / steps *)
GrowthFactor(q, Z) ==
    Exp(Mul(q.r - Mul(ONE \div 2, Mul(q.sigma, q.sigma)), q.T \div q.steps)
            + Mul(Mul(q.sigma, Sqrt(q.T \div q.steps)), Z))

(* C16: for valid (params, r) simulate_path returns steps + 1 prices, the  *)
(* first of them S0 and each next one the previous times the growth factor *)
(* of dt = T / steps and the i-th value drawn; it consumes exactly steps   *)
(* values of the stream, in order                                          *)
C16_PathShape ==
    (engine = "simulate_path" /\ out_path # NotCalled /\ ValidPathParams(req)) =>
        /\ out_path.status = "return"
        /\ Len(out_path.value) = req.steps + 1
        /\ out_path.value[1] = req.S0
        /\ \A k \in 1..req.steps :
               out_path.value[k + 1]
                   = Mul(out_path.value[k], GrowthFactor(req, randn_seq[k]))
        /\ randn_pos = req.steps

(* C16 witness: a path of MaxSteps steps with positive volatility whose *)
(* first two draws differ                                               *)
C16_Witness ==
    /\ engine = "simulate_path" /\ out_path.status = "return"
    /\ req.steps = MaxSteps /\ req.sigma > 0 /\ req.r > 0
    /\ randn_seq[1] # randn_seq[2]
    /\ Len(out_path.value) = MaxSteps + 1
    /\ out_path.value[2] # out_path.value[1]

----------------------------------------------------------------------------
(* Termination (checked under SpecMCFair)                                  *)

(* the call is over: the C++ function and the sequential JS function      *)
(* returned a result, the promise of the worker-based run was settled     *)
RunCompleted ==
    /\ pc = "done"
    /\ engine \in {"cpp_seq", "cpp_omp", "js_seq"} => mcOut.status = "return"
    /\ engine = "js_worker" => settled = 1 /\ mcOut.status \in {"return", "reject"}

(* C17: a pricing call with a valid request runs to completion: the C++   *)
(* loop ends after n_paths iterations and a result is returned, and the   *)
(* worker-based run settles its promise once its shares were handled      *)
C17_RunsToCompletion == ValidRequest(req) ~> RunCompleted

(* C17 witness: a worker-based run of MaxWorkers shares resolved with a *)
(* result, every share handled and delivered                            *)
C17_Witness ==
    /\ engine = "js_worker" /\ ValidRequest(req) /\ RunCompleted
    /\ numWorkers = MaxWorkers /\ mcOut.status = "return"
    /\ req.n_paths = MaxPaths
    /\ inbox = <<>> /\ outbox = <<>>

(* |actual - expected| / expected of a TestResult *)
RelativeError(res) == Div(Abs(res.actual - res.expected), res.expected)

(* C20: test_call_accuracy and test_put_accuracy report PASSED exactly    *)
(* when the Monte Carlo price is within 1% relative error of the          *)
(* Black-Scholes price, |mc - bs| / bs <= 0.01                            *)
C20_PassedIffWithinOnePercent ==
    /\ out_test_call.status = "return" =>
           /\ (out_test_call.value.message = "PASSED")
                  <=> (RelativeError(out_test_call.value) <= ONE \div 100)
           /\ out_test_call.value.passed <=> (out_test_call.value.message = "PASSED")
    /\ out_test_put.status = "return" =>
           /\ (out_test_put.value.message = "PASSED")
                  <=> (RelativeError(out_test_put.value) <= ONE \div 100)
           /\ out_test_put.value.passed <=> (out_test_put.value.message = "PASSED")

(* what the tests do: PASSED exactly when the relative error is at most *)
(* 0.01 per cent, the error in per cent being compared with 0.01        *)
PassedIffWithinHundredthOfPercent ==
    /\ out_test_call.status = "return" =>
           ((out_test_call.value.message = "PASSED")
               <=> (RelativeError(out_test_call.value) * 100 <= ONE \div 100))
    /\ out_test_put.status = "return" =>
           ((out_test_put.value.message = "PASSED")
               <=> (RelativeError(out_test_put.value) * 100 <= ONE \div 100))

----------------------------------------------------------------------------
(* Draws per path (checked under SpecMC)                                   *)

(* C21: each path's terminal price comes from exactly one standard-normal *)
(* variate, so a run of n_paths paths that returns a result has consumed  *)
(* exactly n_paths variates, whatever the value of steps                  *)
C21_OneDrawPerPath ==
    (pc = "done" /\ mcOut.status = "return") => draws = req.n_paths

(* the same for the JS estimators alone *)
OneDrawPerPathJs ==
    (engine \in {"js_seq", "js_worker"} /\ pc = "done" /\ mcOut.status = "return") =>
        draws = req.n_paths

(* what monte_carlo_price consumes: steps variates for every path *)
StepsDrawsPerPathCpp ==
    (Cpp /\ pc = "done" /\ mcOut.status = "return") => draws = req.n_paths * req.steps

----------------------------------------------------------------------------
(* The Calculate button (checked under SpecForm)                           *)

FieldValid(field) == field_value[field] # "" /\ ~out_of_range(field_value[field])

(* C22: after any sequence of input events the Calculate button is enabled *)
(* only if all six fields are filled and every one of them is valid; no    *)
(* reachable state has the button enabled while a field is empty or        *)
(* invalid                                                                 *)
C22_EnabledOnlyIfAllValid ==
    ~calculateBtn_disabled => \A field \in Fields : FieldValid(field)

(* what validateInput does establish: right after an input event that *)
(* leaves the button enabled, every field is filled                   *)
EnabledByInputOnlyIfAllFilled ==
    [][(field_value' # field_value /\ ~calculateBtn_disabled')
         => \A field \in Fields : field_value'[field] # ""]_vars

(* C23: while a calculatePrices run is in progress the Calculate button *)
(* stays disabled, under every interleaving of input events, so that a  *)
(* second calculation cannot start before the first has finished        *)
C23_DisabledWhileCalculating ==
    calculations > 0 => calculateBtn_disabled

(* the consequence drawn in C23: never two calculations in progress *)
OneCalculationAtATime == calculations <= 1

----------------------------------------------------------------------------
(* The command-line tool and the engine's validation (checked under SpecFn) *)

(* the request would be rejected by one of bs_call, bs_put, monte_carlo_price *)
EngineRejects(q) ==
    \/ bs_call_check(q.S0, q.K, q.sigma, q.T) # ""
    \/ bs_put_check(q.S0, q.K, q.sigma, q.T) # ""
    \/ monte_carlo_price_check(q.K, q.n_paths, q.r) # ""
    \/ simulate_path_check(q, q.r) # ""

(* C24: every parameter set that passes the tool's own validation is      *)
(* accepted by bs_call, bs_put and monte_carlo_price, so the tool never   *)
(* reaches an engine validation failure; and every parameter set the      *)
(* engine would reject makes the tool exit with status 1 before any       *)
(* pricing call                                                           *)
C24_CliValidationCoversEngine ==
    out_main.status # "none" =>
        /\ out_main.status # "terminate"
        /\ EngineRejects(req) =>
               (out_main.status = "exit" /\ out_main.code = 1
                   /\ out_main.pricing_calls = 0)

(* what holds: the tool's validation covers the engine's but for the   *)
(* sign of r; with r >= 0 the tool never reaches a validation failure, *)
(* and the only failure reached is that of monte_carlo_price on r < 0  *)
CliValidationCoversEngineButR ==
    out_main.status # "none" =>
        /\ req.r >= 0 => out_main.status = "exit"
        /\ (req.r >= 0 /\ EngineRejects(req)) =>
               (out_main.code = 1 /\ out_main.pricing_calls = 0)
        /\ out_main.status = "terminate" =>
               (req.r < 0 /\ out_main.what = "Risk-free rate r must be non-negative"
                   /\ out_main.pricing_calls = 3)

----------------------------------------------------------------------------
(* The worker-partitioned run and the sequential run (checked under SpecMC) *)

(* the path counts of the partial results delivered, summed *)
DeliveredPathCount == SumOver([w \in DOMAIN results |-> results[w].pathCount], DOMAIN results)

SequentialRunIsItsFold ==
    (engine = "js_seq" /\ pc = "done") =>
        LET seq == runMonteCarloSequential(req, variates)
        IN  /\ total_discounted_payoff = seq.totalPayoff
            /\ total_squared_payoff = seq.totalSquaredPayoff
            /\ mcOut = mc_result(seq.totalPayoff, seq.totalSquaredPayoff, seq.pathCount)

----------------------------------------------------------------------------
(* Sign of the closed-form prices (checked under SpecBS)                   *)

(* C26: for every valid input (S0 > 0, K > 0, sigma >= 0, T > 0, r >= 0), *)
(* the sigma = 0 branch included, bs_call and bs_put return a value >= 0  *)
C26_ClosedFormNonNegative ==
    (ClosedFormValid /\ req.r >= 0) =>
        \A o \in {out_bs_call, out_bs_put} : o.status # "none" =>
            (o.status = "return" /\ o.value >= 0)

(* what holds: bs_call is never negative, bs_put is not where sigma > 0, *)
(* and the JS pricers never are; the negative values are those of bs_put *)
(* at sigma = 0 with K e^(-rT) < S0 < K                                  *)
ClosedFormNonNegativeButPutAtZeroVol ==
    (ClosedFormValid /\ req.r >= 0) =>
        /\ \A o \in {out_bs_call, out_bsCall, out_bsPut} : o.status # "none" =>
               (o.status = "return" /\ o.value >= 0)
        /\ out_bs_put.status # "none" =>
               /\ out_bs_put.status = "return"
               /\ out_bs_put.value < 0 =>
                      (req.sigma = 0 /\ DiscountedStrike < req.S0 /\ req.S0 < req.K)

----------------------------------------------------------------------------
(* Sign and growth of the accumulated moments (checked under SpecAcc and   *)
(* SpecMC)                                                                 *)

(* mean_sq - mean^2 as the estimators compute it from the totals *)
VarianceOf(total, total_sq, n) ==
    total_sq \div n - Mul(total \div n, total \div n)

(* the running sums are non-negative and no step decreases them *)
RunningSumsMonotone ==
    [][ValidRequest(req) =>
          /\ total_discounted_payoff' >= total_discounted_payoff
          /\ total_squared_payoff' >= total_squared_payoff
          /\ total_discounted_payoff' >= 0 /\ total_squared_payoff' >= 0
          /\ \A t \in DOMAIN omp_private \cap DOMAIN omp_private' :
                 /\ omp_private'[t].sum >= omp_private[t].sum
                 /\ omp_private'[t].sq >= omp_private[t].sq
                 /\ omp_private[t].sum >= 0 /\ omp_private[t].sq >= 0]_vars

(* C27: for every valid request the running sum and the running sum of  *)
(* squares of the discounted payoffs are non-negative at every point of *)
(* the accumulation, and at the end price >= 0 and the variance         *)
(* mean_sq - mean^2 >= 0, so that the standard error is a defined       *)
(* non-negative number                                                  *)
C27_MomentsNonNegative ==
    ValidRequest(req) =>
        /\ total_discounted_payoff >= 0 /\ total_squared_payoff >= 0
        /\ (pc = "done" /\ mcOut.status = "return") =>
               /\ mcOut.price >= 0
               /\ VarianceOf(total_discounted_payoff, total_squared_payoff,
                             req.n_paths) >= 0
               /\ mcOut.stderr # NaN /\ mcOut.stderr >= 0

(* C27 without the variance and the standard error *)
SumsAndPriceNonNegative ==
    ValidRequest(req) =>
        /\ total_discounted_payoff >= 0 /\ total_squared_payoff >= 0
        /\ (pc = "done" /\ mcOut.status = "return") => mcOut.price >= 0

----------------------------------------------------------------------------
(* Order of the validation failures of monte_carlo_price (checked under    *)
(* SpecMC)                                                                 *)

(* the failure of the first violated constraint in the order K, n_paths, *)
(* r, S0, sigma, T, steps                                                *)
FirstViolated(q) ==
    IF q.K <= 0 THEN "Strike price K must be positive"
    ELSE IF q.n_paths <= 0 THEN "Number of paths must be positive"
    ELSE IF q.r < 0 THEN "Risk-free rate r must be non-negative"
    ELSE IF q.S0 <= 0 THEN "Initial stock price S0 must be positive"
    ELSE IF q.sigma < 0 THEN "Volatility sigma must be non-negative"
    ELSE IF q.T <= 0 THEN "Time to maturity T must be positive"
    ELSE IF q.steps <= 0 THEN "Number of steps must be positive"
    ELSE ""

(* C28: a request that violates several constraints at once makes          *)
(* monte_carlo_price report the first violated one in the order K,         *)
(* n_paths, r, S0, sigma, T, steps; which failure is reported depends only *)
(* on the request, not on the number of threads or on scheduling           *)
C28_FirstViolationReported ==
    (Cpp /\ ~ValidRequest(req) /\ pc = "done") => mcOut = McThrow(FirstViolated(req))

(* what holds: the sequential build reports exactly that failure, and in *)
(* the parallel build the exception that is raised carries that message, *)
(* whether it reaches the caller or ends the process                     *)
FirstViolationRaised ==
    (Cpp /\ ~ValidRequest(req) /\ pc = "done") =>
        /\ mcOut.status \in {"throw", "terminate"}
        /\ mcOut.what = FirstViolated(req)
        /\ engine = "cpp_seq" => mcOut.status = "throw"
        /\ mcOut.status = "terminate" =>
               (req.K > 0 /\ req.n_paths > 0 /\ req.r >= 0)

----------------------------------------------------------------------------
(* The error path of runMonteCarloWithWorker (checked under SpecMC)        *)

(* C29: runMonteCarloWithWorker settles its promise at most once; if the  *)
(* worker reports an error before all partial results have arrived, the   *)
(* run is rejected, the worker is terminated, and no price and standard   *)
(* error built from the partial results received so far is ever delivered *)
(* for that run                                                           *)
C29_ErrorRejectsOnce ==
    engine = "js_worker" =>
        /\ settled <= 1
        /\ (mcOut.status = "none") <=> (settled = 0)
        /\ mcOut.status \in {"none", "return", "reject"}
        /\ mcOut.status = "reject" => (terminated /\ pc = "done")
        /\ (completedWorkers < numWorkers /\ pc = "done") => mcOut = McReject
        /\ mcOut.status = "return" => completedWorkers = numWorkers

(* the worker reported an error after one of two partial results, with a *)
(* positive total, had been received                                     *)
C29_Witness ==
    /\ engine = "js_worker" /\ mcOut = McReject /\ settled = 1 /\ terminated
    /\ numWorkers = 2 /\ completedWorkers = 1
    /\ 0 \in DOMAIN results /\ results[0].totalPayoff > 0 /\ results[0].pathCount >= 1

====
